---------------------------- MODULE Spec2Model ----------------------------
(***************************************************************************)
(* Model of open-hypergraphs-dot: generate_dot_with (src/src/lib.rs)       *)
(* translates a lax open hypergraph into a GraphViz document, a list of    *)
(* statements.  Strings are TLA+ strings, Vec is a sequence (index i of    *)
(* the code is position i + 1), Option is a sequence of length 0 or 1.     *)
(***************************************************************************)
EXTENDS Naturals, Sequences, FiniteSets, TLC

VARIABLES graph, opts, stmts, pc, previous

vars == <<graph, opts, stmts, pc, previous>>

---------------------------------------------------------------------------
(* Bounds of the model.                                                    *)

\* node indices range over 0 .. MaxNodes - 1
MaxNodes == 3
\* hyperedges of one hypergraph in the wiring inputs
MaxEdges == 2
\* source slots, and target slots, of one hyperedge
MaxArity == 2
\* slots of the source interface, and of the target interface
MaxIface == 2
\* entries of the quotient's left sequence, and of its right sequence
MaxQuot == 2
\* characters of a label
MaxLabelLen == 3
\* nodes, and hyperedges, of the inputs that exercise the naming
MaxCount == 11

---------------------------------------------------------------------------
(* Strings and formatting.                                                 *)

RECURSIVE Decimal(_)
\* usize's Display, as format!("{}", i) prints it
Decimal(i) ==
    LET digit == SubSeq("0123456789", (i % 10) + 1, (i % 10) + 1)
    IN  IF i < 10 THEN digit ELSE Decimal(i \div 10) \o digit

\* String::truncate(new_len)
Truncate(s, new_len) == SubSeq(s, 1, new_len)

\* the characters without the field divider
Special_without_divider == {"\\", "\"", "{", "}", "<", ">"}

\* the characters escape_dot_label escapes
Special == {"\\", "\"", "{", "}", "|", "<", ">"}

\* one arm of escape_dot_label's match
EscapeChar(c) == IF c \in Special THEN "\\" \o c ELSE c

RECURSIVE escape_dot_label(_)
escape_dot_label(s) ==
    IF Len(s) = 0 THEN ""
    ELSE EscapeChar(SubSeq(s, 1, 1)) \o escape_dot_label(SubSeq(s, 2, Len(s)))

---------------------------------------------------------------------------
(* Options (src/src/options.rs).                                           *)

Orientation == {"LR", "TB"}

\* Display for Orientation
OrientationToString(o) == IF o = "LR" THEN "LR" ELSE "TB"

light_theme ==
    [bgcolor |-> "white", fontcolor |-> "black", color |-> "black",
     orientation |-> "LR"]

dark_theme ==
    [bgcolor |-> "#4a4a4a", fontcolor |-> "white", color |-> "white",
     orientation |-> "LR"]

\* The caller's label closures.  "debug" is Options::default's
\* format!("{:?}", n) on a label whose Debug text is the label itself (a unit
\* enum variant); "hidden" is the closure |_n| "".to_string() of
\* examples/adder.rs.
LabelFns == {"debug", "hidden"}

ApplyLabel(f, o) == IF f = "hidden" THEN "" ELSE o

DefaultOptions ==
    [orientation |-> "TB", theme |-> dark_theme,
     node_label |-> "debug", edge_label |-> "debug"]

---------------------------------------------------------------------------
(* dot_structures values.                                                  *)

Attribute(k, v) == [key |-> k, value |-> v]

None == <<>>

Some(x) == <<x>>

\* struct Port(Option<Id>, Option<String>)
Port(a, b) == <<a, b>>

NodeId(id, port) == [id |-> id, port |-> port]

StmtAttribute(k, v) == [ty |-> "Attribute", key |-> k, value |-> v]

StmtNode(id, attributes) == [ty |-> "Node", id |-> id, attributes |-> attributes]

\* Stmt::Edge(Edge { ty: EdgeTy::Pair(Vertex::N(a), Vertex::N(b)), attributes })
StmtEdge(a, b, attributes) ==
    [ty |-> "Edge", from |-> a, to |-> b, attributes |-> attributes]

---------------------------------------------------------------------------
(* The passes of generate_dot_with.  g is the OpenHypergraph, o the        *)
(* Options.                                                                *)

\* the preamble whose layout direction is read from the theme
preamble_stmts_theme_orientation(o) ==
    << StmtAttribute("rankdir", OrientationToString(o.theme.orientation)),
       StmtAttribute("bgcolor", "\"" \o o.theme.bgcolor \o "\""),
       StmtNode(NodeId("node", None),
                << Attribute("shape", "record"),
                   Attribute("style", "rounded"),
                   Attribute("fontcolor", "\"" \o o.theme.fontcolor \o "\""),
                   Attribute("color", "\"" \o o.theme.color \o "\"") >>),
       StmtNode(NodeId("edge", None),
                << Attribute("fontcolor", "\"" \o o.theme.fontcolor \o "\""),
                   Attribute("color", "\"" \o o.theme.color \o "\""),
                   Attribute("arrowhead", "none") >>) >>

\* lines 24-83: the statements added before the passes run
preamble_stmts(o) ==
    << StmtAttribute("rankdir", OrientationToString(o.orientation)),
       StmtAttribute("bgcolor", "\"" \o o.theme.bgcolor \o "\""),
       StmtNode(NodeId("node", None),
                << Attribute("shape", "record"),
                   Attribute("style", "rounded"),
                   Attribute("fontcolor", "\"" \o o.theme.fontcolor \o "\""),
                   Attribute("color", "\"" \o o.theme.color \o "\"") >>),
       StmtNode(NodeId("edge", None),
                << Attribute("fontcolor", "\"" \o o.theme.fontcolor \o "\""),
                   Attribute("color", "\"" \o o.theme.color \o "\""),
                   Attribute("arrowhead", "none") >>) >>

\* format!("n_{}", i)
NodeName(i) == "n_" \o Decimal(i)

\* a hyperedge vertex named as a node vertex is
EdgeName_as_node(i) == "n_" \o Decimal(i)

\* format!("e_{}", i)
EdgeName(i) == "e_" \o Decimal(i)

\* format!("{}_{}", prefix, j), the name of a port
PortName(prefix, j) == prefix \o "_" \o Decimal(j)

\* the statement pushed by one iteration of generate_node_stmts' loop
node_stmt(g, o, i) ==
    LET label == escape_dot_label(ApplyLabel(o.node_label, g.hypergraph.nodes[i + 1]))
    IN  StmtNode(NodeId(NodeName(i), None),
                 << Attribute("shape", "point"),
                    Attribute("xlabel", "\"" \o label \o "\"") >>)

generate_node_stmts(g, o) ==
    [k \in 1..Len(g.hypergraph.nodes) |-> node_stmt(g, o, k - 1)]

RECURSIVE PushPorts(_, _, _)
\* for j in from..n { ports.push_str(&format!("<prefix_{j}> | ")) }
PushPorts(prefix, from, n) ==
    IF from >= n THEN ""
    ELSE "<" \o PortName(prefix, from) \o "> | " \o PushPorts(prefix, from + 1, n)

\* the port section of a record label: the loop, then the truncation of the
\* last " | "
port_section(prefix, n) ==
    LET ports == PushPorts(prefix, 0, n)
    IN  IF Len(ports) # 0 THEN Truncate(ports, Len(ports) - 3) ELSE ports

\* the record label with all three cells, whatever the arities
record_label_three_cells(source_ports, label, target_ports) ==
    "\"{ { " \o source_ports \o " } | " \o label \o " | { " \o target_ports \o " } }\""

\* lines 200-212
record_label(source_ports, label, target_ports) ==
    IF Len(source_ports) = 0 /\ Len(target_ports) = 0
    THEN "\"" \o label \o "\""
    ELSE IF Len(source_ports) = 0
    THEN "\"{ " \o label \o " | { " \o target_ports \o " } }\""
    ELSE IF Len(target_ports) = 0
    THEN "\"{ { " \o source_ports \o " } | " \o label \o " }\""
    ELSE "\"{ { " \o source_ports \o " } | " \o label \o " | { "
             \o target_ports \o " } }\""

\* the statement pushed by one iteration of generate_edge_stmts' loop
edge_stmt(g, o, i) ==
    LET hyperedge == g.hypergraph.adjacency[i + 1]
        label == escape_dot_label(ApplyLabel(o.edge_label, g.hypergraph.edges[i + 1]))
        source_ports == port_section("s", Len(hyperedge.sources))
        target_ports == port_section("t", Len(hyperedge.targets))
    IN  StmtNode(NodeId(EdgeName(i), None),
                 << Attribute("label", record_label(source_ports, label, target_ports)),
                    Attribute("shape", "record") >>)

\* adjacency[i] at line 178 panics when i is past the adjacency's end
edge_stmts_panics(g) == Len(g.hypergraph.edges) > Len(g.hypergraph.adjacency)

generate_edge_stmts(g, o) ==
    [k \in 1..Len(g.hypergraph.edges) |-> edge_stmt(g, o, k - 1)]

\* the connections of hyperedge i with a node's repeated slots merged into the
\* first of them
hyperedge_connections_dedup(i, hyperedge) ==
    LET srcs == {j \in 1..Len(hyperedge.sources) :
                    \A k \in 1..(j - 1) : hyperedge.sources[k] # hyperedge.sources[j]}
        tgts == {j \in 1..Len(hyperedge.targets) :
                    \A k \in 1..(j - 1) : hyperedge.targets[k] # hyperedge.targets[j]}
        nth(S, k) == CHOOSE j \in S : Cardinality({m \in S : m < j}) = k - 1
    IN  [k \in 1..Cardinality(srcs) |->
            StmtEdge(NodeId(NodeName(hyperedge.sources[nth(srcs, k)]), None),
                     NodeId(EdgeName(i), Some(Port(None, Some(PortName("s", nth(srcs, k) - 1))))),
                     << >>)]
        \o
        [k \in 1..Cardinality(tgts) |->
            StmtEdge(NodeId(EdgeName(i), Some(Port(None, Some(PortName("t", nth(tgts, k) - 1))))),
                     NodeId(NodeName(hyperedge.targets[nth(tgts, k)]), None),
                     << >>)]

\* the connections of hyperedge i with the slots counted from one
hyperedge_connections_one_based(i, hyperedge) ==
    [j \in 1..Len(hyperedge.sources) |->
        StmtEdge(NodeId(NodeName(hyperedge.sources[j]), None),
                 NodeId(EdgeName(i), Some(Port(None, Some(PortName("s", j))))),
                 << >>)]
    \o
    [j \in 1..Len(hyperedge.targets) |->
        StmtEdge(NodeId(EdgeName(i), Some(Port(None, Some(PortName("t", j))))),
                 NodeId(NodeName(hyperedge.targets[j]), None),
                 << >>)]

\* the statements the body of generate_connection_stmts' outer loop pushes for
\* hyperedge i: one per source slot, then one per target slot
hyperedge_connections(i, hyperedge) ==
    [j \in 1..Len(hyperedge.sources) |->
        StmtEdge(NodeId(NodeName(hyperedge.sources[j]), None),
                 NodeId(EdgeName(i), Some(Port(None, Some(PortName("s", j - 1))))),
                 << >>)]
    \o
    [j \in 1..Len(hyperedge.targets) |->
        StmtEdge(NodeId(EdgeName(i), Some(Port(None, Some(PortName("t", j - 1))))),
                 NodeId(NodeName(hyperedge.targets[j]), None),
                 << >>)]

RECURSIVE connection_loop(_, _)
\* the outer loop of generate_connection_stmts from hyperedge i on
connection_loop(adjacency, i) ==
    IF i >= Len(adjacency) THEN << >>
    ELSE hyperedge_connections(i, adjacency[i + 1]) \o connection_loop(adjacency, i + 1)

generate_connection_stmts(g) == connection_loop(g.hypergraph.adjacency, 0)

\* the source interface with each port named after the node it leads to
source_interface_stmts_by_node(g) ==
    IF Len(g.sources) = 0 THEN << >>
    ELSE
      << StmtNode(NodeId("sources", None),
                  << Attribute("label",
                               "\"{ {} | { " \o port_section("p", Len(g.sources)) \o " } }\""),
                     Attribute("shape", "record"),
                     Attribute("style", "invisible"),
                     Attribute("rank", "source") >>) >>
      \o
      [i \in 1..Len(g.sources) |->
          StmtEdge(NodeId("sources", Some(Port(None, Some(PortName("p", g.sources[i]))))),
                   NodeId(NodeName(g.sources[i]), None),
                   << Attribute("style", "dashed") >>)]

\* lines 285-337: the "sources" pseudo-vertex and its dashed connections
source_interface_stmts(g) ==
    IF Len(g.sources) = 0 THEN << >>
    ELSE
      << StmtNode(NodeId("sources", None),
                  << Attribute("label",
                               "\"{ {} | { " \o port_section("p", Len(g.sources)) \o " } }\""),
                     Attribute("shape", "record"),
                     Attribute("style", "invisible"),
                     Attribute("rank", "source") >>) >>
      \o
      [i \in 1..Len(g.sources) |->
          StmtEdge(NodeId("sources", Some(Port(None, Some(PortName("p", i - 1))))),
                   NodeId(NodeName(g.sources[i]), None),
                   << Attribute("style", "dashed") >>)]

\* the target interface without the test for an empty interface
target_interface_stmts_unguarded(g) ==
    << StmtNode(NodeId("targets", None),
                << Attribute("label",
                             "\"{ { " \o port_section("p", Len(g.targets)) \o " } | {} }\""),
                   Attribute("shape", "record"),
                   Attribute("style", "invisible"),
                   Attribute("rank", "sink") >>) >>
    \o
    [i \in 1..Len(g.targets) |->
        StmtEdge(NodeId(NodeName(g.targets[i]), None),
                 NodeId("targets", Some(Port(None, Some(PortName("p", i - 1))))),
                 << Attribute("style", "dashed") >>)]

\* lines 339-391: the "targets" pseudo-vertex and its dashed connections
target_interface_stmts(g) ==
    IF Len(g.targets) = 0 THEN << >>
    ELSE
      << StmtNode(NodeId("targets", None),
                  << Attribute("label",
                               "\"{ { " \o port_section("p", Len(g.targets)) \o " } | {} }\""),
                     Attribute("shape", "record"),
                     Attribute("style", "invisible"),
                     Attribute("rank", "sink") >>) >>
      \o
      [i \in 1..Len(g.targets) |->
          StmtEdge(NodeId(NodeName(g.targets[i]), None),
                   NodeId("targets", Some(Port(None, Some(PortName("p", i - 1))))),
                   << Attribute("style", "dashed") >>)]

generate_interface_stmts(g) == source_interface_stmts(g) \o target_interface_stmts(g)

\* a key that keeps the orientation of the pair
pair_key_oriented(left_idx, right_idx) == <<left_idx, right_idx>>

\* lines 415-419
pair_key(left_idx, right_idx) ==
    IF left_idx < right_idx THEN <<left_idx, right_idx>> ELSE <<right_idx, left_idx>>

\* the connection between the canonical endpoints
quotient_edge_canonical(left_idx, right_idx) ==
    StmtEdge(NodeId(NodeName(pair_key(left_idx, right_idx)[1]), None),
             NodeId(NodeName(pair_key(left_idx, right_idx)[2]), None),
             << Attribute("style", "dotted"), Attribute("dir", "none") >>)

\* the connection with the attribute that frees it of the layout constraint
quotient_edge_unconstrained(left_idx, right_idx) ==
    StmtEdge(NodeId(NodeName(left_idx), None),
             NodeId(NodeName(right_idx), None),
             << Attribute("style", "dotted"), Attribute("dir", "none"),
                Attribute("constraint", "false") >>)

\* lines 423-438: the connection pushed for a pair seen for the first time
quotient_edge(left_idx, right_idx) ==
    StmtEdge(NodeId(NodeName(left_idx), None),
             NodeId(NodeName(right_idx), None),
             << Attribute("style", "dotted"), Attribute("dir", "none") >>)

\* lefts.iter().zip(rights.iter()) stops at the end of the shorter sequence
ZipLen(lefts, rights) == IF Len(lefts) < Len(rights) THEN Len(lefts) ELSE Len(rights)

RECURSIVE quotient_loop(_, _, _, _)
\* the loop of generate_quotient_stmts from pair k on; unified_nodes is the
\* key set of the HashMap
quotient_loop(lefts, rights, k, unified_nodes) ==
    IF k >= ZipLen(lefts, rights) THEN << >>
    ELSE LET key == pair_key(lefts[k + 1], rights[k + 1])
         IN  IF key \notin unified_nodes
             THEN << quotient_edge(lefts[k + 1], rights[k + 1]) >>
                  \o quotient_loop(lefts, rights, k + 1, unified_nodes \cup {key})
             ELSE quotient_loop(lefts, rights, k + 1, unified_nodes)

\* The RandomState of the HashMap made at line 408, which fixes the order in
\* which the map would be iterated: by ascending or by descending key.
Hashers == {"ascending", "descending"}

\* key a comes no later than key b when a map with hasher h is iterated
IteratedBefore(a, b, h) ==
    IF h = "ascending"
    THEN a[1] < b[1] \/ (a[1] = b[1] /\ a[2] <= b[2])
    ELSE b[1] < a[1] \/ (a[1] = b[1] /\ b[2] <= a[2])

RECURSIVE map_order_edges(_, _)
\* one connection per key of the map, in the order the map is iterated
map_order_edges(keys, h) ==
    IF keys = {} THEN << >>
    ELSE LET key == CHOOSE a \in keys : \A b \in keys : IteratedBefore(a, b, h)
         IN  << quotient_edge(key[1], key[2]) >> \o map_order_edges(keys \ {key}, h)

\* the quotient pass that fills the map first and then iterates it
generate_quotient_stmts_map_order(g, h) ==
    LET lefts == g.hypergraph.quotient[1]
        rights == g.hypergraph.quotient[2]
    IN  map_order_edges({pair_key(lefts[k], rights[k]) : k \in 1..ZipLen(lefts, rights)}, h)

\* h is the hasher of unified_nodes; the loop inserts into the map and never
\* iterates it
generate_quotient_stmts(g, h) ==
    quotient_loop(g.hypergraph.quotient[1], g.hypergraph.quotient[2], 0, {})

---------------------------------------------------------------------------
(* The inputs: lax open hypergraphs and options.                           *)

NodeIds == 0..(MaxNodes - 1)

SeqsUpTo(S, n) == UNION {[1..k -> S] : k \in 0..n}

\* open_hypergraphs::lax::Hyperedge
Hyperedge(s, t) == [sources |-> s, targets |-> t]

\* open_hypergraphs::lax::OpenHypergraph, with the fields lib.rs reads
OpenHypergraph(nodes, edges, adjacency, quotient, sources, targets) ==
    [hypergraph |-> [nodes |-> nodes, edges |-> edges,
                     adjacency |-> adjacency, quotient |-> quotient],
     sources |-> sources, targets |-> targets]

\* n node labels and n operation labels, as the examples' NodeType and
\* Operation enums name them
NodeTypes(n) == [i \in 1..n |-> IF i % 2 = 1 THEN "A" ELSE "B"]

Operations(n) == [i \in 1..n |-> IF i % 2 = 1 THEN "Copy" ELSE "Mul"]

\* the Copy operation of the examples: one source, two targets
CopyEdge == Hyperedge(<<0>>, <<1, 2>>)

\* the hypergraph with the Copy operation alone, open on all its nodes
CopyGraph(quotient, sources, targets) ==
    OpenHypergraph(NodeTypes(MaxNodes), Operations(1), <<CopyEdge>>,
                   quotient, sources, targets)

\* the characters labels are made of: every special one and a plain one
Alphabet == {"\\", "\"", "{", "}", "|", "<", ">", "a"}

RECURSIVE Concat(_)
Concat(cs) == IF Len(cs) = 0 THEN "" ELSE Head(cs) \o Concat(Tail(cs))

Themes ==
    {[t EXCEPT !.orientation = o] : t \in {light_theme, dark_theme}, o \in Orientation}

AllOptions ==
    [orientation : Orientation, theme : Themes,
     node_label : LabelFns, edge_label : LabelFns]

\* hyperedges of every arity and wiring; all but the last are Copy
WiringInput ==
    \E k \in 1..MaxEdges :
      \E s \in SeqsUpTo(NodeIds, MaxArity), t \in SeqsUpTo(NodeIds, MaxArity) :
        graph = OpenHypergraph(NodeTypes(MaxNodes), Operations(k),
                    [i \in 1..k |-> IF i < k THEN CopyEdge ELSE Hyperedge(s, t)],
                    << << >>, << >> >>, <<0>>, <<1, 2>>)

\* every source and target interface
InterfaceInput ==
    \E s \in SeqsUpTo(NodeIds, MaxIface), t \in SeqsUpTo(NodeIds, MaxIface) :
        graph = CopyGraph(<< << >>, << >> >>, s, t)

\* every quotient: two parallel sequences of one length
QuotientInput ==
    \E k \in 0..MaxQuot :
      \E lefts \in [1..k -> NodeIds], rights \in [1..k -> NodeIds] :
        graph = CopyGraph(<<lefts, rights>>, <<0>>, <<1, 2>>)

\* every label, on a node and on a hyperedge
LabelInput ==
    \E k \in 0..MaxLabelLen :
      \E cs \in [1..k -> Alphabet] :
        graph = OpenHypergraph(<<Concat(cs)>>, <<Concat(cs)>>,
                    <<Hyperedge(<<0>>, << >>)>>, << << >>, << >> >>, << >>, << >>)

\* many nodes and many hyperedges without slots
CountInput ==
    \E n \in 0..MaxCount, m \in 0..MaxCount :
        graph = OpenHypergraph(NodeTypes(n), Operations(m),
                    [i \in 1..m |-> Hyperedge(<< >>, << >>)],
                    << << >>, << >> >>, << >>, << >>)

\* hypergraphs whose fields need not agree: any number of nodes under the
\* indices in use, label and adjacency sequences of any two lengths, quotient
\* sequences of any two lengths
UncheckedInput ==
    \E n \in 0..MaxNodes, e \in 0..MaxEdges, a \in 0..MaxEdges,
       l \in 0..MaxQuot, r \in 0..MaxQuot :
        graph = OpenHypergraph(NodeTypes(n), Operations(e), [i \in 1..a |-> CopyEdge],
                    << [i \in 1..l |-> 0], [i \in 1..r |-> 0] >>, <<0>>, << >>)

\* the scenarios the examples and the spec's testable properties name: the
\* Copy and Mul operations of examples/copy_multiply.rs with their outputs and
\* inputs unified, the quotient [(0,1), (1,0), (2,3)], the source interface
\* [node 3, node 1]
ExampleInput ==
    \/ graph = OpenHypergraph(NodeTypes(6), Operations(2),
                   <<Hyperedge(<<0>>, <<1, 2>>), Hyperedge(<<3, 4>>, <<5>>)>>,
                   << <<1, 2>>, <<3, 4>> >>, <<0>>, <<5>>)
    \/ graph = OpenHypergraph(NodeTypes(4), Operations(1), <<CopyEdge>>,
                   << <<0, 1, 2>>, <<1, 0, 3>> >>, <<0>>, <<1, 2>>)
    \/ graph = OpenHypergraph(NodeTypes(4), Operations(1), <<CopyEdge>>,
                   << << >>, << >> >>, <<3, 1>>, <<2>>)

\* the input invariant of the spec: every index is a node's, and the parallel
\* sequences have equal lengths
WellFormed(g) ==
    LET n == Len(g.hypergraph.nodes)
        InRange(xs) == \A i \in 1..Len(xs) : xs[i] < n
    IN  /\ Len(g.hypergraph.edges) = Len(g.hypergraph.adjacency)
        /\ Len(g.hypergraph.quotient[1]) = Len(g.hypergraph.quotient[2])
        /\ \A j \in 1..Len(g.hypergraph.adjacency) :
               /\ InRange(g.hypergraph.adjacency[j].sources)
               /\ InRange(g.hypergraph.adjacency[j].targets)
        /\ InRange(g.sources) /\ InRange(g.targets)
        /\ InRange(g.hypergraph.quotient[1]) /\ InRange(g.hypergraph.quotient[2])

---------------------------------------------------------------------------
(* One call of generate_dot_with(graph, opts).                             *)

\* the passes in the order of the spec: the wiring before the interface
after_wiring_first(p) ==
    CASE p = "start" -> "nodes"
      [] p = "nodes" -> "edges"
      [] p = "edges" -> "connections"
      [] p = "connections" -> "interface"
      [] p = "interface" -> "quotient"
      [] p = "quotient" -> "done"

\* the order in which generate_dot_with runs its passes and appends their
\* statements: the pass after pass p, "done" after the last
after(p) ==
    CASE p = "start" -> "nodes"
      [] p = "nodes" -> "edges"
      [] p = "edges" -> "interface"
      [] p = "interface" -> "connections"
      [] p = "connections" -> "quotient"
      [] p = "quotient" -> "done"

Init ==
    /\ \/ /\ \/ WiringInput
             \/ InterfaceInput
             \/ QuotientInput
             \/ LabelInput
             \/ CountInput
             \/ UncheckedInput
             \/ ExampleInput
          /\ opts = DefaultOptions
       \/ /\ graph = CopyGraph(<< <<1>>, <<2>> >>, <<0>>, <<1, 2>>)
          /\ opts \in AllOptions
    /\ stmts = << >>
    /\ pc = "start"
    /\ previous = None

\* lines 24-83
Preamble ==
    /\ pc = "start"
    /\ stmts' = preamble_stmts(opts)
    /\ pc' = after(pc)
    /\ UNCHANGED <<graph, opts, previous>>

\* lines 85-89
NodePass ==
    /\ pc = "nodes"
    /\ stmts' = stmts \o generate_node_stmts(graph, opts)
    /\ pc' = after(pc)
    /\ UNCHANGED <<graph, opts, previous>>

\* lines 91-95; the index past the adjacency's end aborts the call
EdgePass ==
    /\ pc = "edges"
    /\ IF edge_stmts_panics(graph)
       THEN pc' = "panicked" /\ UNCHANGED stmts
       ELSE pc' = after(pc) /\ stmts' = stmts \o generate_edge_stmts(graph, opts)
    /\ UNCHANGED <<graph, opts, previous>>

\* lines 97-101
InterfacePass ==
    /\ pc = "interface"
    /\ stmts' = stmts \o generate_interface_stmts(graph)
    /\ pc' = after(pc)
    /\ UNCHANGED <<graph, opts, previous>>

\* lines 103-107
ConnectionPass ==
    /\ pc = "connections"
    /\ stmts' = stmts \o generate_connection_stmts(graph)
    /\ pc' = after(pc)
    /\ UNCHANGED <<graph, opts, previous>>

\* lines 109-115: the last pass, and the document is returned
QuotientPass ==
    /\ pc = "quotient"
    /\ \E h \in Hashers : stmts' = stmts \o generate_quotient_stmts(graph, h)
    /\ pc' = after(pc)
    /\ UNCHANGED <<graph, opts, previous>>

Next ==
    \/ Preamble
    \/ NodePass
    \/ EdgePass
    \/ InterfacePass
    \/ ConnectionPass
    \/ QuotientPass

Spec == Init /\ [][Next]_vars

\* The caller renders the same hypergraph with the same options once more,
\* keeping the first document.
CallAgain ==
    /\ pc = "done"
    /\ previous = None
    /\ previous' = Some(stmts)
    /\ stmts' = << >>
    /\ pc' = "start"
    /\ UNCHANGED <<graph, opts>>

\* the hypergraphs that are rendered twice: every quotient, and the examples
InitTwice ==
    /\ QuotientInput \/ ExampleInput
    /\ opts = DefaultOptions
    /\ stmts = << >>
    /\ pc = "start"
    /\ previous = None

NextTwice == Next \/ CallAgain

SpecTwice == InitTwice /\ [][NextTwice]_vars

\* The caller turns the orientation stored in the theme to the other value and
\* renders the same hypergraph once more, keeping the first document.
CallOtherThemeOrientation ==
    /\ pc = "done"
    /\ previous = None
    /\ previous' = Some(stmts)
    /\ \E o \in Orientation \ {opts.theme.orientation} :
         opts' = [opts EXCEPT !.theme.orientation = o]
    /\ stmts' = << >>
    /\ pc' = "start"
    /\ UNCHANGED graph

\* the copy example under every combination of the options
InitTheme ==
    /\ graph = CopyGraph(<< <<1>>, <<2>> >>, <<0>>, <<1, 2>>)
    /\ opts \in AllOptions
    /\ stmts = << >>
    /\ pc = "start"
    /\ previous = None

NextTheme == Next \/ CallOtherThemeOrientation

SpecTheme == InitTheme /\ [][NextTheme]_vars

---------------------------------------------------------------------------
(* Reading a document.                                                     *)

\* the call has returned its document
Returned == pc = "done"

StartsWith(s, prefix) ==
    Len(s) >= Len(prefix) /\ SubSeq(s, 1, Len(prefix)) = prefix

IsConnection(s) == s.ty = "Edge"

\* a vertex statement: a node statement other than the two default-attribute
\* statements of the preamble
IsVertex(s) == s.ty = "Node" /\ s.id.id \notin {"node", "edge"}

HasPort(v) == v.port # None

\* the port an endpoint names
PortOf(v) == v.port[1][2][1]

HasAttribute(s, k, v) ==
    \E a \in 1..Len(s.attributes) : s.attributes[a] = Attribute(k, v)

HasKey(s, k) == \E a \in 1..Len(s.attributes) : s.attributes[a].key = k

\* a connection between two node vertices
IsQuotientConnection(s) ==
    /\ IsConnection(s)
    /\ StartsWith(s.from.id, "n_") /\ StartsWith(s.to.id, "n_")

\* a connection with a hyperedge vertex at one end
IsWiringConnection(s) ==
    /\ IsConnection(s)
    /\ StartsWith(s.from.id, "e_") \/ StartsWith(s.to.id, "e_")

\* a connection with an interface pseudo-vertex at one end
IsInterfaceConnection(s) ==
    /\ IsConnection(s)
    /\ s.from.id \in {"sources", "targets"} \/ s.to.id \in {"sources", "targets"}

IsInterfaceVertex(s) == IsVertex(s) /\ s.id.id \in {"sources", "targets"}

\* the statements of a document that satisfy Test, in document order
Select(doc, Test(_)) == SelectSeq(doc, Test)

QuotientConnections == Select(stmts, IsQuotientConnection)

WiringConnections == Select(stmts, IsWiringConnection)

\* the pairs (left[i], right[i]) of the quotient
QuotientPairs ==
    LET lefts == graph.hypergraph.quotient[1]
        rights == graph.hypergraph.quotient[2]
        n == IF Len(lefts) < Len(rights) THEN Len(lefts) ELSE Len(rights)
    IN  [i \in 1..n |-> <<lefts[i], rights[i]>>]

Unordered(p) == {p[1], p[2]}

\* the positions of the quotient at which an unordered pair occurs for the
\* first time
FirstOccurrences ==
    {i \in 1..Len(QuotientPairs) :
        \A j \in 1..(i - 1) : Unordered(QuotientPairs[j]) # Unordered(QuotientPairs[i])}

\* the k-th smallest element of a set of numbers
Nth(S, k) == CHOOSE i \in S : Cardinality({j \in S : j < i}) = k - 1

Min(a, b) == IF a < b THEN a ELSE b

Max(a, b) == IF a < b THEN b ELSE a

---------------------------------------------------------------------------
(* The claims.                                                             *)

\* C1: the returned document holds exactly one quotient connection per distinct
\* unordered pair {left[i], right[i]} of the quotient, however often and in
\* whichever orientation the pair occurs, and the k-th of them joins the pair
\* whose first occurrence is the k-th first occurrence in the quotient.
C1_OnePerUnorderedPair ==
    Returned =>
        /\ Len(QuotientConnections)
             = Cardinality({Unordered(QuotientPairs[i]) : i \in 1..Len(QuotientPairs)})
        /\ Len(QuotientConnections) = Cardinality(FirstOccurrences)
        /\ \A k \in 1..Len(QuotientConnections) :
              LET p == QuotientPairs[Nth(FirstOccurrences, k)]
                  c == QuotientConnections[k]
              IN  {c.from.id, c.to.id} = {NodeName(p[1]), NodeName(p[2])}

\* C1 witness: the quotient [(0,1), (1,0), (2,3)] has been rendered with two
\* connections
C1_Witness ==
    /\ Returned
    /\ graph.hypergraph.quotient = << <<0, 1, 2>>, <<1, 0, 3>> >>
    /\ Len(QuotientConnections) = 2

\* C2 as claimed: every quotient connection runs from the vertex of the smaller
\* index of its pair to the vertex of the larger one.
C2_Canonical_Endpoints ==
    Returned =>
        \A k \in 1..Len(QuotientConnections) :
            k <= Cardinality(FirstOccurrences) =>
                LET p == QuotientPairs[Nth(FirstOccurrences, k)]
                    c == QuotientConnections[k]
                IN  /\ c.from.id = NodeName(Min(p[1], p[2]))
                    /\ c.to.id = NodeName(Max(p[1], p[2]))

\* C2 amended: every quotient connection runs from the vertex of left[i] to the
\* vertex of right[i], i the first occurrence of its pair: the orientation of
\* the first occurrence is kept.
C2_FirstOccurrence_Endpoints ==
    Returned =>
        /\ Len(QuotientConnections) = Cardinality(FirstOccurrences)
        /\ \A k \in 1..Len(QuotientConnections) :
              LET p == QuotientPairs[Nth(FirstOccurrences, k)]
                  c == QuotientConnections[k]
              IN  /\ c.from.id = NodeName(p[1]) /\ ~HasPort(c.from)
                  /\ c.to.id = NodeName(p[2]) /\ ~HasPort(c.to)

\* C2 witness: a pair whose first occurrence has left > right has been
\* rendered, from the vertex of the left index
C2_Witness ==
    /\ Returned
    /\ Len(QuotientConnections) >= 1
    /\ QuotientPairs[1][1] > QuotientPairs[1][2]
    /\ QuotientConnections[1].from.id = NodeName(QuotientPairs[1][1])

\* C3 as claimed: the connections that are undirected, dotted and free of the
\* layout constraint are exactly the quotient connections.
C3_Unconstrained_Dotted ==
    Returned =>
        \A i \in 1..Len(stmts) :
            IsConnection(stmts[i]) =>
                (IsQuotientConnection(stmts[i])
                    <=> /\ HasAttribute(stmts[i], "style", "dotted")
                        /\ HasAttribute(stmts[i], "dir", "none")
                        /\ HasAttribute(stmts[i], "constraint", "false"))

\* C3 amended: every quotient connection carries style = dotted and dir = none
\* and nothing else (no attribute disables the layout constraint), and no
\* other connection carries either of the two.
C3_Undirected_Dotted ==
    Returned =>
        \A i \in 1..Len(stmts) :
            IsConnection(stmts[i]) =>
                /\ IsQuotientConnection(stmts[i])
                     => stmts[i].attributes
                          = << Attribute("style", "dotted"), Attribute("dir", "none") >>
                /\ ~IsQuotientConnection(stmts[i])
                     => /\ ~HasAttribute(stmts[i], "style", "dotted")
                        /\ ~HasKey(stmts[i], "dir")
                        /\ ~HasKey(stmts[i], "constraint")

\* C3 witness: a document with a quotient connection, a wiring connection and
\* an interface connection
C3_Witness ==
    /\ Returned
    /\ \E i, j, k \in 1..Len(stmts) :
          /\ IsQuotientConnection(stmts[i])
          /\ IsWiringConnection(stmts[j])
          /\ IsInterfaceConnection(stmts[k])

\* The block of the document a statement belongs to, in the order of the
\* spec's five passes: preamble, node vertices, hyperedge vertices, wiring,
\* then interface and quotient.
SpecBlock(s) ==
    IF s.ty = "Attribute" \/ (s.ty = "Node" /\ ~IsVertex(s)) THEN 1
    ELSE IF IsVertex(s) /\ StartsWith(s.id.id, "n_") THEN 2
    ELSE IF IsVertex(s) /\ StartsWith(s.id.id, "e_") THEN 3
    ELSE IF IsWiringConnection(s) THEN 4
    ELSE 5

\* The block of the document a statement belongs to, in the order the passes
\* run: preamble, node vertices, hyperedge vertices, interface, wiring,
\* quotient.
CodeBlock(s) ==
    IF s.ty = "Attribute" \/ (s.ty = "Node" /\ ~IsVertex(s)) THEN 1
    ELSE IF IsVertex(s) /\ StartsWith(s.id.id, "n_") THEN 2
    ELSE IF IsVertex(s) /\ StartsWith(s.id.id, "e_") THEN 3
    ELSE IF IsInterfaceVertex(s) \/ IsInterfaceConnection(s) THEN 4
    ELSE IF IsWiringConnection(s) THEN 5
    ELSE 6

\* C4 as claimed: the statements appear as consecutive blocks in the order
\* preamble, node vertices, hyperedge vertices, wiring connections, interface
\* and quotient; no interface statement precedes a wiring connection.
C4_Spec_Order ==
    Returned =>
        \A i \in 1..(Len(stmts) - 1) : SpecBlock(stmts[i]) <= SpecBlock(stmts[i + 1])

\* C4 amended: the statements appear as consecutive blocks in the order
\* preamble, node vertices, hyperedge vertices, interface pseudo-vertices with
\* their dashed connections, wiring connections, quotient connections; the
\* interface statements precede every wiring connection.
C4_Code_Order ==
    Returned =>
        /\ Len(stmts) >= 4
        /\ \A i \in 1..4 : CodeBlock(stmts[i]) = 1
        /\ \A i \in 1..(Len(stmts) - 1) : CodeBlock(stmts[i]) <= CodeBlock(stmts[i + 1])

\* C4 witness: a document in which all six blocks are present
C4_Witness ==
    /\ Returned
    /\ \A b \in 1..6 : \E i \in 1..Len(stmts) : CodeBlock(stmts[i]) = b

RECURSIVE SlotsBefore(_, _)
\* the number of slots, sources and targets, of the first j hyperedges
SlotsBefore(adjacency, j) ==
    IF j = 0 THEN 0
    ELSE SlotsBefore(adjacency, j - 1)
           + Len(adjacency[j].sources) + Len(adjacency[j].targets)

\* C5: the wiring connections of the returned document are, hyperedge by
\* hyperedge, one directed connection n_<n> -> e_<j>:s_<k> per source slot k
\* (n = sources[j][k]) followed by one connection e_<j>:t_<k> -> n_<n> per
\* target slot k (n = targets[j][k]), in slot order, none merged: their number
\* is the sum of all source and target arities.
C5_Wiring_Per_Slot ==
    Returned =>
        LET adjacency == graph.hypergraph.adjacency
            ws == WiringConnections
        IN  /\ Len(ws) = SlotsBefore(adjacency, Len(adjacency))
            /\ \A j \in 1..Len(adjacency) :
                  LET h == adjacency[j]
                      at == SlotsBefore(adjacency, j - 1)
                  IN  /\ \A k \in 1..Len(h.sources) :
                            LET c == ws[at + k]
                            IN  /\ c.from.id = NodeName(h.sources[k]) /\ ~HasPort(c.from)
                                /\ c.to.id = EdgeName(j - 1) /\ HasPort(c.to)
                                /\ PortOf(c.to) = PortName("s", k - 1)
                                /\ c.attributes = << >>
                      /\ \A k \in 1..Len(h.targets) :
                            LET c == ws[at + Len(h.sources) + k]
                            IN  /\ c.from.id = EdgeName(j - 1) /\ HasPort(c.from)
                                /\ PortOf(c.from) = PortName("t", k - 1)
                                /\ c.to.id = NodeName(h.targets[k]) /\ ~HasPort(c.to)
                                /\ c.attributes = << >>

\* C5 witness: a second hyperedge whose two source slots hold the same node has
\* been wired, with one connection per slot
C5_Witness ==
    /\ Returned
    /\ Len(graph.hypergraph.adjacency) = 2
    /\ graph.hypergraph.adjacency[2] = Hyperedge(<<1, 1>>, <<0>>)
    /\ Len(WiringConnections) = 6
    /\ WiringConnections[4].from.id = "n_1" /\ PortOf(WiringConnections[4].to) = "s_0"
    /\ WiringConnections[5].from.id = "n_1" /\ PortOf(WiringConnections[5].to) = "s_1"

\* the position of the vertex statement named name
VertexAt(name) == CHOOSE i \in 1..Len(stmts) : IsVertex(stmts[i]) /\ stmts[i].id.id = name

\* the connections with name at one end
ConnectionsOf(name) ==
    {i \in 1..Len(stmts) :
        IsConnection(stmts[i]) /\ name \in {stmts[i].from.id, stmts[i].to.id}}

\* C6: the i-th statement after the "sources" vertex is the dashed connection
\* sources:p_<i> -> n_<a_i> and the i-th after the "targets" vertex is the
\* dashed connection n_<b_i> -> targets:p_<i>, in interface order, one per
\* slot, also for a node an interface lists twice.
C6_Interface_Order ==
    Returned =>
        /\ Cardinality(ConnectionsOf("sources")) = Len(graph.sources)
        /\ Cardinality(ConnectionsOf("targets")) = Len(graph.targets)
        /\ \A i \in 1..Len(graph.sources) :
              LET c == stmts[VertexAt("sources") + i]
              IN  /\ IsConnection(c)
                  /\ c.from.id = "sources" /\ HasPort(c.from)
                  /\ PortOf(c.from) = PortName("p", i - 1)
                  /\ c.to.id = NodeName(graph.sources[i]) /\ ~HasPort(c.to)
                  /\ c.attributes = << Attribute("style", "dashed") >>
        /\ \A i \in 1..Len(graph.targets) :
              LET c == stmts[VertexAt("targets") + i]
              IN  /\ IsConnection(c)
                  /\ c.from.id = NodeName(graph.targets[i]) /\ ~HasPort(c.from)
                  /\ c.to.id = "targets" /\ HasPort(c.to)
                  /\ PortOf(c.to) = PortName("p", i - 1)
                  /\ c.attributes = << Attribute("style", "dashed") >>

\* C6 witness: the source interface [node 3, node 1] has been rendered as
\* p_0 -> n_3, p_1 -> n_1
C6_Witness ==
    /\ Returned
    /\ graph.sources = <<3, 1>>
    /\ stmts[VertexAt("sources") + 1].to.id = "n_3"
    /\ PortOf(stmts[VertexAt("sources") + 1].from) = "p_0"
    /\ stmts[VertexAt("sources") + 2].to.id = "n_1"
    /\ PortOf(stmts[VertexAt("sources") + 2].from) = "p_1"

RECURSIVE JoinPorts(_, _, _)
\* the ports prefix_k .. prefix_(n-1), k < n, joined by the field divider
JoinPorts(prefix, k, n) ==
    IF k = n - 1 THEN "<" \o PortName(prefix, k) \o ">"
    ELSE "<" \o PortName(prefix, k) \o "> | " \o JoinPorts(prefix, k + 1, n)

\* the record label of the claim: the cells that exist, joined by the field
\* divider inside one pair of brackets, or the bare label
ExpectedRecordLabel(s, label, t) ==
    LET left == IF s > 0 THEN "{ " \o JoinPorts("s", 0, s) \o " } | " ELSE ""
        right == IF t > 0 THEN " | { " \o JoinPorts("t", 0, t) \o " }" ELSE ""
    IN  IF s = 0 /\ t = 0 THEN "\"" \o label \o "\""
        ELSE "\"{ " \o left \o label \o right \o " }\""

\* the character of s at position i
CharAt(s, i) == SubSeq(s, i, i)

\* the number of consecutive backslashes of s that end right before position i
RECURSIVE BackslashesBefore(_, _)
BackslashesBefore(s, i) ==
    IF i > 1 /\ CharAt(s, i - 1) = "\\" THEN 1 + BackslashesBefore(s, i - 1) ELSE 0

\* position i of s holds a character that no backslash escapes
Unescaped(s, i) == BackslashesBefore(s, i) % 2 = 0

\* s has a bracket: an opening brace that is not escaped
HasBracket(s) == \E i \in 1..Len(s) : CharAt(s, i) = "{" /\ Unescaped(s, i)

\* s has an empty bracketed cell: an opening brace that is not escaped, followed,
\* after blanks only, by a closing brace
HasEmptyCell(s) ==
    \E i \in 1..Len(s) :
        /\ CharAt(s, i) = "{" /\ Unescaped(s, i)
        /\ \E j \in (i + 1)..Len(s) :
              /\ CharAt(s, j) = "}"
              /\ \A k \in (i + 1)..(j - 1) : CharAt(s, k) = " "

\* the value of the attribute k of statement s
AttributeValue(s, k) ==
    s.attributes[CHOOSE a \in 1..Len(s.attributes) : s.attributes[a].key = k].value

\* C7: the record label of vertex e_<j> has the left cell s_0 .. s_(s-1) iff
\* the hyperedge has s > 0 source slots, the right cell t_0 .. t_(t-1) iff it
\* has t > 0 target slots, the escaped label in the centre, no empty bracketed
\* cell, and is the bare escaped label when s = 0 and t = 0.
C7_Record_Label ==
    Returned =>
        \A j \in 1..Len(graph.hypergraph.edges) :
            LET h == graph.hypergraph.adjacency[j]
                label == escape_dot_label(ApplyLabel(opts.edge_label, graph.hypergraph.edges[j]))
                v == stmts[VertexAt(EdgeName(j - 1))]
                text == AttributeValue(v, "label")
            IN  /\ HasKey(v, "label")
                /\ text = ExpectedRecordLabel(Len(h.sources), label, Len(h.targets))
                /\ ~HasEmptyCell(text)
                /\ (Len(h.sources) = 0 /\ Len(h.targets) = 0) => ~HasBracket(text)

\* C7 witness: a hyperedge with no source and two targets has been rendered
\* without a left cell, after one with a source and two targets
C7_Witness ==
    /\ Returned
    /\ Len(graph.hypergraph.edges) = 2
    /\ Len(graph.hypergraph.adjacency[2].sources) = 0
    /\ Len(graph.hypergraph.adjacency[2].targets) = 2
    /\ AttributeValue(stmts[VertexAt("e_0")], "label")
         = "\"{ { <s_0> } | Copy | { <t_0> | <t_1> } }\""
    /\ AttributeValue(stmts[VertexAt("e_1")], "label")
         = "\"{ Mul | { <t_0> | <t_1> } }\""

IsDigit(c) == \E d \in 0..9 : CharAt("0123456789", d + 1) = c

DigitValue(c) == CHOOSE d \in 0..9 : CharAt("0123456789", d + 1) = c

\* s is the decimal numeral of a number: digits, without a leading zero
IsNumeral(s) ==
    /\ Len(s) >= 1
    /\ \A i \in 1..Len(s) : IsDigit(CharAt(s, i))
    /\ Len(s) > 1 => CharAt(s, 1) # "0"

RECURSIVE NumeralValue(_)
\* the number a numeral denotes
NumeralValue(s) ==
    IF Len(s) = 0 THEN 0
    ELSE 10 * NumeralValue(SubSeq(s, 1, Len(s) - 1)) + DigitValue(CharAt(s, Len(s)))

IsNodeVertex(s) == IsVertex(s) /\ StartsWith(s.id.id, "n_")

IsHyperedgeVertex(s) == IsVertex(s) /\ StartsWith(s.id.id, "e_")

\* the vertex statements vs are named prefix0, prefix1, ... in this order
NamedByIndex(vs, prefix) ==
    \A i \in 1..Len(vs) :
        LET name == vs[i].id.id
            numeral == SubSeq(name, Len(prefix) + 1, Len(name))
        IN  /\ StartsWith(name, prefix)
            /\ IsNumeral(numeral) /\ NumeralValue(numeral) = i - 1
            /\ ~HasPort(vs[i].id)

\* C8: the returned document declares one vertex per node index, in index
\* order, named n_<i>, and one per hyperedge index, in index order, named
\* e_<j>, and no two vertex statements of it, those of the "sources" and
\* "targets" pseudo-vertices included, bear the same name.
C8_Vertex_Names ==
    Returned =>
        /\ Len(Select(stmts, IsNodeVertex)) = Len(graph.hypergraph.nodes)
        /\ NamedByIndex(Select(stmts, IsNodeVertex), "n_")
        /\ Len(Select(stmts, IsHyperedgeVertex)) = Len(graph.hypergraph.edges)
        /\ NamedByIndex(Select(stmts, IsHyperedgeVertex), "e_")
        /\ \A i, j \in 1..Len(stmts) :
              (i # j /\ IsVertex(stmts[i]) /\ IsVertex(stmts[j]))
                  => stmts[i].id.id # stmts[j].id.id

\* C8 witness: eleven nodes and eleven hyperedges have been declared, the last
\* ones as n_10 and e_10
C8_Witness ==
    /\ Returned
    /\ Len(graph.hypergraph.nodes) = 11 /\ Len(graph.hypergraph.edges) = 11
    /\ \E i, j \in 1..Len(stmts) :
          /\ IsVertex(stmts[i]) /\ stmts[i].id.id = "n_10"
          /\ IsVertex(stmts[j]) /\ stmts[j].id.id = "e_10"

\* the seven characters the claim lists
EscapedCharacters == {"\\", "\"", "{", "}", "|", "<", ">"}

RECURSIVE EscapedFrom(_, _)
\* out is s with each listed character replaced by a backslash and the
\* character, and every other character copied, in order
EscapedFrom(out, s) ==
    IF Len(s) = 0 THEN Len(out) = 0
    ELSE IF CharAt(s, 1) \in EscapedCharacters
    THEN /\ Len(out) >= 2
         /\ CharAt(out, 1) = "\\" /\ CharAt(out, 2) = CharAt(s, 1)
         /\ EscapedFrom(SubSeq(out, 3, Len(out)), SubSeq(s, 2, Len(s)))
    ELSE /\ Len(out) >= 1
         /\ CharAt(out, 1) = CharAt(s, 1)
         /\ EscapedFrom(SubSeq(out, 2, Len(out)), SubSeq(s, 2, Len(s)))

\* every listed character of out stands right after a backslash that escapes
\* it, or is such a backslash
NoneUnescaped(out) ==
    \A i \in 1..Len(out) :
        CharAt(out, i) \in EscapedCharacters =>
            \/ ~Unescaped(out, i)
            \/ /\ CharAt(out, i) = "\\"
               /\ i < Len(out) /\ CharAt(out, i + 1) \in EscapedCharacters

\* the text between the quotes of a quoted attribute value
Unquoted(v) == SubSeq(v, 2, Len(v) - 1)

\* C9: the caption of every node vertex is the node's label with each of
\* backslash, double quote, {, }, |, <, > replaced by a backslash and that
\* character and every other character copied, in order; no listed character
\* of it is left unescaped; a label without any of them is copied unchanged.
C9_Escaping ==
    Returned =>
        \A i \in 1..Len(graph.hypergraph.nodes) :
            LET label == ApplyLabel(opts.node_label, graph.hypergraph.nodes[i])
                caption == AttributeValue(stmts[VertexAt(NodeName(i - 1))], "xlabel")
                out == Unquoted(caption)
            IN  /\ caption = "\"" \o out \o "\""
                /\ EscapedFrom(out, label)
                /\ NoneUnescaped(out)
                /\ (\A k \in 1..Len(label) : CharAt(label, k) \notin EscapedCharacters)
                      => out = label

\* C9 witness: the label <|> has been escaped
C9_Witness ==
    /\ Returned
    /\ Len(graph.hypergraph.nodes) = 1
    /\ graph.hypergraph.nodes[1] = "<|>"
    /\ AttributeValue(stmts[VertexAt("n_0")], "xlabel") = "\"\\<\\|\\>\""

\* every vertex n_<n> or e_<j> a connection of the document names is declared
\* by a vertex statement of the document
EndpointsDeclared ==
    \A i \in 1..Len(stmts) :
        IsConnection(stmts[i]) =>
            \A v \in {stmts[i].from, stmts[i].to} :
                (StartsWith(v.id, "n_") \/ StartsWith(v.id, "e_"))
                    => \E k \in 1..Len(stmts) : IsVertex(stmts[k]) /\ stmts[k].id.id = v.id

\* every entry of the quotient's two sequences belongs to a pair that was read
NoEntryDropped ==
    /\ Len(QuotientPairs) = Len(graph.hypergraph.quotient[1])
    /\ Len(QuotientPairs) = Len(graph.hypergraph.quotient[2])

\* C10: a call on a hypergraph that violates the preconditions either aborts
\* or returns a document that is well formed: every n_<n> and e_<j> a
\* connection names is declared, and no input entry is dropped.
C10_Never_Malformed ==
    (Returned /\ ~WellFormed(graph)) => (EndpointsDeclared /\ NoEntryDropped)

\* C11: a second call of generate_dot_with on the same hypergraph and the same
\* options returns the statements of the first call in the same order,
\* whichever hasher the map of either call's quotient pass gets.
C11_Deterministic ==
    (Returned /\ previous # None) => stmts = previous[1]

\* C11 witness: a second call has returned a document with two quotient
\* connections, of a quotient whose keys differ
C11_Witness ==
    /\ Returned /\ previous # None
    /\ Len(QuotientConnections) = 2
    /\ QuotientPairs[1][1] > QuotientPairs[2][1]

\* C12: the first statement of the returned document is the attribute rankdir,
\* whose value is "LR" when the orientation option is left-to-right and "TB"
\* when it is top-to-bottom, under every theme; and the document rendered after
\* the theme's own orientation field was turned is the document rendered
\* before.
C12_Orientation ==
    Returned =>
        /\ stmts[1].ty = "Attribute"
        /\ stmts[1].key = "rankdir"
        /\ opts.orientation = "LR" => stmts[1].value = "LR"
        /\ opts.orientation = "TB" => stmts[1].value = "TB"
        /\ previous # None => stmts = previous[1]

\* C12 witness: the light theme rendered top-to-bottom a second time, now with
\* the theme's orientation field left-to-right
C12_Witness ==
    /\ Returned /\ previous # None
    /\ opts.orientation = "TB"
    /\ opts.theme.orientation = "LR"
    /\ opts.theme.bgcolor = light_theme.bgcolor

\* the positions of the vertex statements named name
VerticesNamed(name) ==
    {i \in 1..Len(stmts) : IsVertex(stmts[i]) /\ stmts[i].id.id = name}

RECURSIVE PortsFrom(_, _)
\* the ports a record label declares from position i on, in order: the texts
\* between an angle bracket that is not escaped and the next closing one
PortsFrom(s, i) ==
    IF i > Len(s) THEN << >>
    ELSE IF /\ CharAt(s, i) = "<" /\ Unescaped(s, i)
            /\ \E j \in (i + 1)..Len(s) : CharAt(s, j) = ">"
    THEN LET j == CHOOSE j \in (i + 1)..Len(s) :
                    /\ CharAt(s, j) = ">"
                    /\ \A k \in (i + 1)..(j - 1) : CharAt(s, k) # ">"
         IN  << SubSeq(s, i + 1, j - 1) >> \o PortsFrom(s, j + 1)
    ELSE PortsFrom(s, i + 1)

\* the ports the record label of vertex statement v declares
DeclaredPorts(v) ==
    IF HasKey(v, "label") THEN PortsFrom(AttributeValue(v, "label"), 1) ELSE << >>

\* the pseudo-vertex name of an interface of n slots: absent, with no
\* connection, when n = 0; else declared once, invisible, of the given rank,
\* with the ports p_0 .. p_(n-1) in the given record label
PseudoVertex(name, n, rank, label) ==
    /\ n = 0 => (VerticesNamed(name) = {} /\ ConnectionsOf(name) = {})
    /\ n > 0 =>
          /\ Cardinality(VerticesNamed(name)) = 1
          /\ LET v == stmts[VertexAt(name)]
             IN  /\ ~HasPort(v.id)
                 /\ HasAttribute(v, "shape", "record")
                 /\ HasAttribute(v, "style", "invisible")
                 /\ HasAttribute(v, "rank", rank)
                 /\ HasAttribute(v, "label", label)
                 /\ DeclaredPorts(v) = [i \in 1..n |-> "p_" \o Decimal(i - 1)]

\* C13: the returned document declares the vertex "sources" exactly once iff
\* the source interface is not empty and the vertex "targets" exactly once iff
\* the target interface is not empty; a declared one is an invisible record
\* ranked "source" resp. "sink" whose label declares the ports p_0 .. p_(n-1),
\* one per slot, in slot order; for an empty interface neither the vertex nor
\* a connection to it is in the document.
C13_Pseudo_Vertices ==
    Returned =>
        /\ PseudoVertex("sources", Len(graph.sources), "source",
              IF Len(graph.sources) = 0 THEN ""
              ELSE "\"{ {} | { " \o JoinPorts("p", 0, Len(graph.sources)) \o " } }\"")
        /\ PseudoVertex("targets", Len(graph.targets), "sink",
              IF Len(graph.targets) = 0 THEN ""
              ELSE "\"{ { " \o JoinPorts("p", 0, Len(graph.targets)) \o " } | {} }\"")

\* C13 witness: a hypergraph with no source and two targets has been rendered
\* with the "targets" vertex of ports p_0, p_1 and without a "sources" vertex
C13_Witness ==
    /\ Returned
    /\ Len(graph.sources) = 0 /\ Len(graph.targets) = 2
    /\ VerticesNamed("sources") = {}
    /\ Cardinality(VerticesNamed("targets")) = 1
    /\ AttributeValue(stmts[VertexAt("targets")], "label") = "\"{ { <p_0> | <p_1> } | {} }\""
    /\ Cardinality(ConnectionsOf("targets")) = 2

\* the input invariant as the claim words it: every index a hyperedge, the
\* interface or the quotient refers to is below the number of nodes, and there
\* are as many hyperedge labels as adjacency entries
InputInvariant ==
    LET n == Len(graph.hypergraph.nodes)
        InRange(xs) == \A i \in 1..Len(xs) : xs[i] < n
    IN  /\ Len(graph.hypergraph.edges) = Len(graph.hypergraph.adjacency)
        /\ \A j \in 1..Len(graph.hypergraph.adjacency) :
               /\ InRange(graph.hypergraph.adjacency[j].sources)
               /\ InRange(graph.hypergraph.adjacency[j].targets)
        /\ InRange(graph.sources) /\ InRange(graph.targets)
        /\ InRange(graph.hypergraph.quotient[1]) /\ InRange(graph.hypergraph.quotient[2])

\* endpoint v names a vertex the document declares and, if it names a port,
\* a port the record label of that vertex declares
Resolves(v) ==
    /\ VerticesNamed(v.id) # {}
    /\ HasPort(v) =>
          LET ports == DeclaredPorts(stmts[VertexAt(v.id)])
          IN  \E k \in 1..Len(ports) : ports[k] = PortOf(v)

\* C14: for a hypergraph that satisfies the input invariant, both endpoints of
\* every connection of the returned document name a vertex that a vertex
\* statement of the document declares, and every port an endpoint names (s_<k>,
\* t_<k> on e_<j>, p_<i> on "sources" and "targets") is declared in the record
\* label of that vertex.
C14_Referential_Integrity ==
    (Returned /\ InputInvariant) =>
        \A i \in 1..Len(stmts) :
            IsConnection(stmts[i]) => (Resolves(stmts[i].from) /\ Resolves(stmts[i].to))

\* C14 witness: a well-formed hypergraph has been rendered whose document names
\* the ports s_1 and t_0 of e_1 and the port p_1 of "targets"
C14_Witness ==
    /\ Returned /\ InputInvariant
    /\ \E i, j, k \in 1..Len(stmts) :
          /\ IsConnection(stmts[i]) /\ stmts[i].to.id = "e_1"
          /\ HasPort(stmts[i].to) /\ PortOf(stmts[i].to) = "s_1"
          /\ IsConnection(stmts[j]) /\ stmts[j].from.id = "e_1"
          /\ HasPort(stmts[j].from) /\ PortOf(stmts[j].from) = "t_0"
          /\ IsConnection(stmts[k]) /\ stmts[k].to.id = "targets"
          /\ HasPort(stmts[k].to) /\ PortOf(stmts[k].to) = "p_1"

====
